---- MODULE Spec2Model ----
(***************************************************************************)
(* State-machine model of user_engagement_dashboard.py, a Streamlit        *)
(* script: every user interaction re-runs the module body from line 1.     *)
(*                                                                         *)
(* Library semantics assumed (pandas 1.3 to 2.x, the versions in which the  *)
(* chained `df[col].fillna(..., inplace=True)` of line 41 writes through):  *)
(*   - read_csv turns an empty field into a missing value (NaN);            *)
(*   - Series.mean skips NaN and is NaN when nothing is left;               *)
(*   - drop_duplicates keeps the first of equal rows, NaN equal to NaN;     *)
(*   - Series.unique keeps first-seen order and keeps NaN;                  *)
(*   - isin matches NaN with NaN;                                           *)
(*   - groupby sorts the group keys and drops NaN keys; over a frame with   *)
(*     no rows its mean() is the empty Series;                              *)
(*   - sort_values uses numpy's quicksort, which is not stable: the order   *)
(*     of equal values depends on the numpy build (variable argsort_ties);  *)
(*   - idxmax skips NaN, returns the first label of the maximum, NaN when   *)
(*     all values are NaN, and raises ValueError on an empty Series.        *)
(* Floats are modelled as exact fractions <<num, den>>; NaN is <<0, 0>>.    *)
(* The Streamlit / matplotlib / seaborn renderers are external: a render    *)
(* call is recorded with the data handed to it and never fails.             *)
(***************************************************************************)
EXTENDS Integers, Sequences, FiniteSets, TLC

\* ------------------------------------------------------------------ bounds
\* Largest number of data rows of the CSV file.
MaxRows == 3
\* Largest number of cells (rows x columns, coursename included) of the file.
MaxCells == 6
\* Numeric cells of the file are drawn from 1..MaxVal or are missing.
MaxVal == 2

\* ------------------------------------------------------------- characters
UpperCase == <<"A","B","C","D","E","F","G","H","I","J","K","L","M",
               "N","O","P","Q","R","S","T","U","V","W","X","Y","Z">>
LowerCase == <<"a","b","c","d","e","f","g","h","i","j","k","l","m",
               "n","o","p","q","r","s","t","u","v","w","x","y","z">>
Whitespace == {" ", "\t"}

\* str.lower() on one character.
LowerMap == [ch \in {UpperCase[i] : i \in 1..26} |->
                LowerCase[CHOOSE i \in 1..26 : UpperCase[i] = ch]]
LowerChar(ch) == IF ch \in DOMAIN LowerMap THEN LowerMap[ch] ELSE ch

\* The sequence f, with its entries computed once: TLC computes an entry of
\* [i \in 1..n |-> e] anew at each use.
Tuple(f) == SubSeq(f, 1, Len(f))

\* str.lower(): every character lowercased.
Lower(s) == Tuple([i \in 1..Len(s) |-> LowerChar(s[i])])

RECURSIVE LStrip(_)
\* str.lstrip(): leading whitespace removed.
LStrip(s) ==
    IF s # <<>> /\ Head(s) \in Whitespace THEN LStrip(Tail(s)) ELSE s

RECURSIVE RStrip(_)
\* str.rstrip(): trailing whitespace removed.
RStrip(s) ==
    IF s # <<>> /\ s[Len(s)] \in Whitespace
    THEN RStrip(SubSeq(s, 1, Len(s) - 1))
    ELSE s

\* str.strip().
Strip(s) == RStrip(LStrip(s))

\* The lambda of line 26: x.strip().lower().
NormalizeName(x) == Lower(Strip(x))

\* Column names, as character sequences.
coursename       == <<"c","o","u","r","s","e","n","a","m","e">>
sessionsperweek  == <<"s","e","s","s","i","o","n","s","p","e","r","w","e","e","k">>
coursecompletion == <<"c","o","u","r","s","e","c","o","m","p","l","e","t","i","o","n">>
usersatisfaction == <<"u","s","e","r","s","a","t","i","s","f","a","c","t","i","o","n">>
quizscore        == <<"q","u","i","z","s","c","o","r","e">>

\* Line 36.
all_numeric_cols == <<sessionsperweek, coursecompletion, usersatisfaction, quizscore>>

\* ---------------------------------------------------------------- floats
NaN == <<0, 0>>
IsNaN(v) == v[2] = 0

RECURSIVE GCD(_, _)
GCD(a, b) == IF b = 0 THEN a ELSE GCD(b, a % b)

\* The fraction n/d (d > 0, n >= 0) in lowest terms.
Frac(n, d) == LET g == GCD(n, d) IN IF g = 0 THEN <<0, 1>> ELSE <<n \div g, d \div g>>

FracAdd(a, b) == Frac(a[1] * b[2] + b[1] * a[2], a[2] * b[2])
\* Float comparison: false whenever an operand is NaN.
FracLess(a, b) == ~IsNaN(a) /\ ~IsNaN(b) /\ a[1] * b[2] < b[1] * a[2]

RECURSIVE SumNonNaN(_)
SumNonNaN(vals) ==
    IF vals = <<>> THEN <<0, 1>>
    ELSE IF IsNaN(Head(vals)) THEN SumNonNaN(Tail(vals))
    ELSE FracAdd(Head(vals), SumNonNaN(Tail(vals)))

CountNonNaN(vals) == Cardinality({i \in 1..Len(vals) : ~IsNaN(vals[i])})

\* Mutant of Mean: the missing values are counted in the divisor.
Mean_CountsMissing(vals) ==
    LET s == SumNonNaN(vals)
    IN  IF CountNonNaN(vals) = 0 THEN NaN ELSE Frac(s[1], s[2] * Len(vals))

\* Series.mean(): skipna, NaN when no value is left.
Mean(vals) ==
    LET n == CountNonNaN(vals)
        s == SumNonNaN(vals)
    IN  IF n = 0 THEN NaN ELSE Frac(s[1], s[2] * n)

\* ------------------------------------------------------------- dataframes
\* A DataFrame is [columns: sequence of names, rows: sequence of rows], a row
\* being the sequence of its cells in column order.  Column 1 of the files
\* considered is the course column.
HasColumn(d, col) == \E i \in 1..Len(d.columns) : d.columns[i] = col
ColPos(d, col) == CHOOSE i \in 1..Len(d.columns) : d.columns[i] = col
\* df[col] as the sequence of its values.
Column(d, col) == Tuple([r \in 1..Len(d.rows) |-> d.rows[r][ColPos(d, col)]])

\* The missing value of an object (string) column.
NA == "nan"
CourseNames == <<"A", "B">>
CourseRank(c) == CHOOSE i \in 1..Len(CourseNames) : CourseNames[i] = c

\* ------------------------------------------------------------ CSV files
\* The headers of the files considered: coursename first, then some of the
\* numeric columns, spelled with capitals and surrounding blanks or not.
Headers == {
    << <<" ","C","o","u","r","s","e","N","a","m","e">> >>,
    << coursename,
       <<"S","e","s","s","i","o","n","s","P","e","r","W","e","e","k"," ">> >>,
    << coursename,
       <<" ","C","o","u","r","s","e","C","o","m","p","l","e","t","i","o","n">> >>,
    << <<"C","o","u","r","s","e","N","a","m","e","\t">>,
       <<"C","O","U","R","S","E","C","O","M","P","L","E","T","I","O","N">>,
       <<" ","U","s","e","r","S","a","t","i","s","f","a","c","t","i","o","n"," ">> >>,
    << coursename, sessionsperweek, coursecompletion, usersatisfaction, quizscore >> }

CourseCells == {CourseNames[i] : i \in 1..Len(CourseNames)} \cup {NA}
NumericCells == {NaN} \cup {<<v, 1>> : v \in 1..MaxVal}
Min(a, b) == IF a < b THEN a ELSE b
\* A file of ncols columns has at most MaxRows rows and MaxCells cells.
RowCounts(ncols) == 0..Min(MaxRows, MaxCells \div ncols)
FileRows(ncols) ==
    {<<c>> \o cells : c \in CourseCells, cells \in [1..(ncols - 1) -> NumericCells]}

\* Outcomes of numpy's quicksort argsort on equal values: they keep their
\* input order, or they do not.
ArgsortBuilds == {"keeps_ties", "swaps_ties"}

ChartTypes == <<"Scatter Plot", "Line Chart", "Pie Chart">>

NoFrame == [columns |-> <<>>, rows |-> <<>>]

VARIABLES
    csv,              \* data/e_learning_dataset_with_course_names.csv
    argsort_ties,     \* what the numpy build does with equal sort keys
    ui_courses,       \* the multiselect's session value: <<>> unset, <<list>> set
    ui_chart,         \* the selectbox's session value
    pc,               \* "run": a script run is due; "done"; "fatal"
    error,            \* the uncaught exception that ended the run, "" when none
    df, numeric_cols, courses, selected_courses, filtered_df,
    avg_sessions, avg_completion, chart_type,
    st_bars,          \* the st.bar_chart calls of the run, <<title, series>>
    st_heatmap,       \* the heatmap call or the st.info call of Step 6
    st_chart,         \* the render calls of Step 7
    st_insights,      \* the st.* calls of Step 8
    last_run          \* the page of the previous run when only the chart kind changed

vars == <<csv, argsort_ties, ui_courses, ui_chart, pc, error, df, numeric_cols, courses,
          selected_courses, filtered_df, avg_sessions, avg_completion, chart_type,
          st_bars, st_heatmap, st_chart, st_insights, last_run>>

\* The script's variables and the page before a run: nothing is defined yet.
Init ==
    /\ \E header \in Headers :
         \E n \in RowCounts(Len(header)) :
           \E rows \in [1..n -> FileRows(Len(header))] :
             csv = [columns |-> header, rows |-> rows]
    /\ argsort_ties \in ArgsortBuilds
    /\ ui_courses = <<>>
    /\ ui_chart = ChartTypes[1]
    /\ pc = "run"
    /\ error = ""
    /\ df = NoFrame
    /\ numeric_cols = <<>>
    /\ courses = <<>>
    /\ selected_courses = <<>>
    /\ filtered_df = NoFrame
    /\ avg_sessions = <<>>
    /\ avg_completion = <<>>
    /\ chart_type = ""
    /\ st_bars = <<>>
    /\ st_heatmap = <<>>
    /\ st_chart = <<>>
    /\ st_insights = <<>>
    /\ last_run = <<>>

\* -------------------------------------------------------- Steps 1 to 3
\* Step 1, line 20: pd.read_csv.
LoadDataset == csv

\* Step 2, line 26: df.rename(columns=lambda x: x.strip().lower()).
CleanColumnNames(d) ==
    [d EXCEPT !.columns =
        Tuple([i \in 1..Len(d.columns) |-> NormalizeName(d.columns[i])])]

\* Line 37: the known numeric columns the frame has, in the order of line 36.
NumericCols(d) == SelectSeq(all_numeric_cols, LAMBDA col : HasColumn(d, col))

\* Line 41: df[col].fillna(df[col].mean(), inplace=True).
FillNa(d, col) ==
    LET m == Mean(Column(d, col))
        p == ColPos(d, col)
    IN  [d EXCEPT !.rows =
            Tuple([r \in 1..Len(d.rows) |->
                      IF IsNaN(d.rows[r][p]) THEN [d.rows[r] EXCEPT ![p] = m]
                      ELSE d.rows[r]])]

RECURSIVE FillAll(_, _)
\* Lines 40-41: the loop over numeric_cols.
FillAll(d, cols) ==
    IF cols = <<>> THEN d ELSE FillAll(FillNa(d, Head(cols)), Tail(cols))

RECURSIVE KeepFirst(_, _)
KeepFirst(rows, kept) ==
    IF rows = <<>> THEN kept
    ELSE IF \E i \in 1..Len(kept) : kept[i] = Head(rows)
         THEN KeepFirst(Tail(rows), kept)
         ELSE KeepFirst(Tail(rows), Append(kept, Head(rows)))

\* Line 43: df.drop_duplicates(inplace=True), keep="first".
DropDuplicates(d) == [d EXCEPT !.rows = KeepFirst(d.rows, <<>>)]

\* Mutant of CleanNumericColumns: de-duplication before imputation.
CleanNumericColumns_DedupFirst(d) == FillAll(DropDuplicates(d), NumericCols(d))

\* Step 3, lines 36-43: imputation, then de-duplication.
CleanNumericColumns(d) == DropDuplicates(FillAll(d, NumericCols(d)))

\* ---------------------------------------------------------------- Step 4
RECURSIVE UniqueFrom(_, _)
UniqueFrom(vals, seen) ==
    IF vals = <<>> THEN seen
    ELSE IF \E i \in 1..Len(seen) : seen[i] = Head(vals)
         THEN UniqueFrom(Tail(vals), seen)
         ELSE UniqueFrom(Tail(vals), Append(seen, Head(vals)))

\* Series.unique(): the distinct values in first-seen order, NaN included.
Unique(vals) == UniqueFrom(vals, <<>>)

Elems(s) == {s[i] : i \in 1..Len(s)}

\* Lines 50-54: the multiselect returns its session value, which is the
\* default (every course) as long as the user has not touched it.
MultiSelect(options, session) ==
    IF session = <<>> THEN options ELSE session[1]

\* df[df['coursename'].isin(selected)], line 58.
IsIn(d, selected) ==
    [d EXCEPT !.rows =
        SelectSeq(d.rows, LAMBDA row : row[ColPos(d, coursename)] \in Elems(selected))]

\* Mutant of FilterRows: no fallback for the empty selection.
FilterRows_NoFallback(d, selected) == IsIn(d, selected)

\* Lines 57-60.
FilterRows(d, selected) ==
    IF selected # <<>> THEN IsIn(d, selected) ELSE d

\* Line 62: ', '.join(selected_courses) raises TypeError on a float (NaN) item.
JoinRaises(selected) == selected # <<>> /\ NA \in Elems(selected)

\* ---------------------------------------------------------------- Step 5
\* Mutant of GroupKeys: groupby(sort=False), the keys in first-seen order.
GroupKeys_FirstSeen(d) ==
    SelectSeq(Unique(Column(d, coursename)), LAMBDA c : c # NA)

\* The group keys of groupby('coursename'): sorted, NaN dropped.
GroupKeys(d) ==
    SelectSeq(CourseNames, LAMBDA c : c \in Elems(Column(d, coursename)))

\* The values of column col in the rows of course c.
GroupValues(d, col, c) ==
    LET rows == SelectSeq(d.rows, LAMBDA row : row[ColPos(d, coursename)] = c)
    IN  Tuple([i \in 1..Len(rows) |-> rows[i][ColPos(d, col)]])

\* d.groupby('coursename')[col].mean(): a Series as <<label, value>> items.
GroupMean(d, col) ==
    LET keys == GroupKeys(d)
    IN  Tuple([k \in 1..Len(keys) |->
                  <<keys[k], Mean(GroupValues(d, col, keys[k]))>>])

Reverse(s) == Tuple([i \in 1..Len(s) |-> s[Len(s) + 1 - i]])

\* One insertion into an ascending sequence of <<payload, key>> items; where
\* the item lands among equal keys is the numpy build's choice.
Insert(sorted, x, ties) ==
    LET k == Cardinality({i \in 1..Len(sorted) :
                 \/ FracLess(sorted[i][2], x[2])
                 \/ ties = "keeps_ties" /\ ~FracLess(x[2], sorted[i][2])})
    IN  SubSeq(sorted, 1, k) \o <<x>> \o SubSeq(sorted, k + 1, Len(sorted))

RECURSIVE InsertAll(_, _, _)
\* ndarray.argsort(kind="quicksort") over non-NaN keys.
InsertAll(items, sorted, ties) ==
    IF items = <<>> THEN sorted
    ELSE InsertAll(Tail(items), Insert(sorted, Head(items), ties), ties)

\* pandas' nargsort behind sort_values: NaN last; a descending sort reverses
\* the input, sorts ascending and reverses the result.
SortValues(items, ascending, ties) ==
    LET nonnan == SelectSeq(items, LAMBDA x : ~IsNaN(x[2]))
        nans   == SelectSeq(items, LAMBDA x : IsNaN(x[2]))
        src    == IF ascending THEN nonnan ELSE Reverse(nonnan)
        sorted == InsertAll(src, <<>>, ties)
    IN  (IF ascending THEN sorted ELSE Reverse(sorted)) \o nans

\* Mutant of Aggregate: sort_values() with its default, ascending.
Aggregate_Ascending(d, col, ties) == SortValues(GroupMean(d, col), TRUE, ties)

\* Lines 69 and 74: groupby(...)[col].mean().sort_values(ascending=False).
Aggregate(d, col, ties) == SortValues(GroupMean(d, col), FALSE, ties)

InCols(col, cols) == \E i \in 1..Len(cols) : cols[i] = col

\* Step 5, lines 68-76: the st.bar_chart calls.
AverageMetrics(d, cols, ties) ==
    (IF InCols(sessionsperweek, cols)
     THEN <<<<"sessions", Aggregate(d, sessionsperweek, ties)>>>> ELSE <<>>)
    \o (IF InCols(coursecompletion, cols)
        THEN <<<<"completion", Aggregate(d, coursecompletion, ties)>>>> ELSE <<>>)

\* ---------------------------------------------------------------- Step 6
\* filtered_df[numeric_cols]: the rows cut to the given columns.
Project(d, cols) ==
    Tuple([r \in 1..Len(d.rows) |->
              Tuple([i \in 1..Len(cols) |-> d.rows[r][ColPos(d, cols[i])]])])

\* Step 6, lines 81-87: the heatmap of the correlations of
\* filtered_df[numeric_cols], or the notice.
CorrelationHeatmap(d, cols) ==
    IF cols # <<>> THEN <<<<"heatmap", Project(d, cols)>>>>
    ELSE <<<<"info", <<>>>>>>

\* ---------------------------------------------------------------- Step 7
\* Lines 109-117: one point per row of filtered_df.
ScatterData(d) ==
    Project(d, <<coursecompletion, usersatisfaction, coursename>>)

\* Lines 130-131: the rows of one course, sorted by coursecompletion.
CourseLine(d, course, ties) ==
    LET rows  == SelectSeq(d.rows, LAMBDA row :
                     course # NA /\ row[ColPos(d, coursename)] = course)
        items == Tuple([i \in 1..Len(rows) |->
                           <<rows[i], rows[i][ColPos(d, coursecompletion)]>>])
        srt   == SortValues(items, TRUE, ties)
    IN  Tuple([i \in 1..Len(srt) |->
                  <<srt[i][1][ColPos(d, coursecompletion)],
                    srt[i][1][ColPos(d, usersatisfaction)]>>])

\* Lines 129-138: one line per value of filtered_df['coursename'].unique().
LineData(d, ties) ==
    LET cs == Unique(Column(d, coursename))
    IN  Tuple([i \in 1..Len(cs) |-> <<cs[i], CourseLine(d, cs[i], ties)>>])

\* The branch of lines 102-163 taken.
ChartBranch(cols, kind) ==
    IF InCols(usersatisfaction, cols) /\ InCols(coursecompletion, cols)
    THEN IF kind = "Scatter Plot" THEN "scatter"
         ELSE IF kind = "Line Chart" THEN "line"
         ELSE IF kind = "Pie Chart" THEN "pie"
         ELSE "none"
    ELSE "info"

\* Step 7, lines 97-163: the render call made.
DynamicVisualization(d, cols, kind, ties) ==
    LET branch == ChartBranch(cols, kind)
    IN  IF branch = "scatter" THEN <<<<"scatter", ScatterData(d)>>>>
        ELSE IF branch = "line" THEN <<<<"line", LineData(d, ties)>>>>
        ELSE IF branch = "pie" THEN <<<<"pie", GroupMean(d, coursecompletion)>>>>
        ELSE IF branch = "info" THEN <<<<"info", <<>>>>>>
        ELSE <<>>

\* ---------------------------------------------------------------- Step 8
\* Mutant of IdxMax: the label of the last maximum.
IdxMax_LastMax(series) ==
    LET valid == {i \in 1..Len(series) : ~IsNaN(series[i][2])}
        best  == {i \in valid : \A j \in valid : ~FracLess(series[i][2], series[j][2])}
    IN  IF valid = {} THEN NA
        ELSE series[CHOOSE i \in best : \A j \in best : i >= j][1]

\* Series.idxmax() of a non-empty Series: the label of the first maximum among
\* the non-NaN values, NaN when every value is NaN.
IdxMax(series) ==
    LET valid == {i \in 1..Len(series) : ~IsNaN(series[i][2])}
        best  == {i \in valid : \A j \in valid : ~FracLess(series[i][2], series[j][2])}
    IN  IF valid = {} THEN NA
        ELSE series[CHOOSE i \in best : \A j \in best : i <= j][1]

\* Lines 172 and 175: groupby(...)[col].mean().idxmax().
TopCourse(d, col) == IdxMax(GroupMean(d, col))

\* idxmax raises ValueError on an empty Series.
IdxMaxRaises(d) == GroupKeys(d) = <<>>

\* Mutant of Empty: the test of line 169 without its "not".
Empty_Negated(d) == ~(Len(d.rows) = 0 \/ Len(d.columns) = 0)

\* DataFrame.empty.
Empty(d) == Len(d.rows) = 0 \/ Len(d.columns) = 0

\* Whether Step 8 ends in an uncaught exception.
InsightRaises(d, cols) ==
    /\ ~Empty(d)
    /\ InCols(sessionsperweek, cols) \/ InCols(coursecompletion, cols)
    /\ IdxMaxRaises(d)

\* Mutant of KeyInsights: the completion statement reads avg_completion.index[0]
\* instead of grouping again.
KeyInsights_ReusesAverage(d, cols) ==
    IF Empty(d) THEN <<<<"warning", "no data">>>>
    ELSE IF InsightRaises(d, cols) THEN <<<<"subheader", "Key Insights">>>>
    ELSE <<<<"subheader", "Key Insights">>>>
         \o (IF InCols(sessionsperweek, cols)
             THEN <<<<"top sessions", TopCourse(d, sessionsperweek)>>>>
             ELSE <<>>)
         \o (IF InCols(coursecompletion, cols)
             THEN <<<<"top completion", avg_completion'[1][1]>>>>
             ELSE <<>>)
         \o <<<<"markdown", "correlate">>>>

\* Step 8, lines 169-179: the st.* calls made, up to the first exception.
KeyInsights(d, cols) ==
    IF Empty(d) THEN <<<<"warning", "no data">>>>
    ELSE IF InsightRaises(d, cols) THEN <<<<"subheader", "Key Insights">>>>
    ELSE <<<<"subheader", "Key Insights">>>>
         \o (IF InCols(sessionsperweek, cols)
             THEN <<<<"top sessions", TopCourse(d, sessionsperweek)>>>>
             ELSE <<>>)
         \o (IF InCols(coursecompletion, cols)
             THEN <<<<"top completion", TopCourse(d, coursecompletion)>>>>
             ELSE <<>>)
         \o <<<<"markdown", "correlate">>>>

\* ------------------------------------------------------------ a script run
\* Streamlit runs the module body from line 1 to its end, or to the first
\* uncaught exception, before it handles the next interaction: a run is one
\* step.  Variables assigned after an exception stay undefined (<<>>, "").
RunScript ==
    /\ pc = "run"
    /\ \E named \in {CleanColumnNames(LoadDataset)} :
       \E cleaned \in {CleanNumericColumns(named)}, cols \in {NumericCols(named)} :
       \E options \in {Unique(Column(cleaned, coursename))} :
       \E sel \in {MultiSelect(options, ui_courses)} :
       \E fdf \in {FilterRows(cleaned, sel)} :
           /\ df' = cleaned
           /\ numeric_cols' = cols
           /\ courses' = options
           /\ selected_courses' = sel
           /\ ui_courses' = <<sel>>
           /\ filtered_df' = fdf
           /\ IF JoinRaises(sel)
              THEN /\ pc' = "fatal"
                   /\ error' = "TypeError"
                   /\ UNCHANGED <<avg_sessions, avg_completion, chart_type,
                                  st_bars, st_heatmap, st_chart, st_insights>>
              ELSE /\ avg_sessions' =
                        IF InCols(sessionsperweek, cols)
                        THEN Aggregate(fdf, sessionsperweek, argsort_ties)
                        ELSE <<>>
                   /\ st_bars' = AverageMetrics(fdf, cols, argsort_ties)
                   /\ st_heatmap' = CorrelationHeatmap(fdf, cols)
                   /\ chart_type' = ui_chart
                   /\ st_chart' = DynamicVisualization(fdf, cols, ui_chart, argsort_ties)
                   /\ avg_completion' =
                        IF ChartBranch(cols, ui_chart) = "pie"
                        THEN GroupMean(fdf, coursecompletion)
                        ELSE IF InCols(coursecompletion, cols)
                             THEN Aggregate(fdf, coursecompletion, argsort_ties)
                        ELSE <<>>
                   /\ st_insights' = KeyInsights(fdf, cols)
                   /\ IF InsightRaises(fdf, cols)
                      THEN pc' = "fatal" /\ error' = "ValueError"
                      ELSE pc' = "done" /\ error' = ""
    /\ UNCHANGED <<csv, argsort_ties, ui_chart, last_run>>

\* ------------------------------------------------------- user interaction
RECURSIVE SubSeqs(_)
\* The sub-lists of a list, order kept: what a multiselect can return.
SubSeqs(s) ==
    IF s = <<>> THEN {<<>>}
    ELSE LET rest == SubSeqs(Tail(s))
         IN  rest \cup {<<Head(s)>> \o t : t \in rest}

\* What the run put on the page, the Step 7 chart aside.
Page ==
    [filtered |-> filtered_df, bars |-> st_bars, heatmap |-> st_heatmap,
     insights |-> st_insights, error |-> error]

\* A rerun starts the script over: its variables and the page are fresh.
Rerun ==
    /\ pc' = "run"
    /\ error' = ""
    /\ df' = NoFrame
    /\ numeric_cols' = <<>>
    /\ courses' = <<>>
    /\ selected_courses' = <<>>
    /\ filtered_df' = NoFrame
    /\ avg_sessions' = <<>>
    /\ avg_completion' = <<>>
    /\ chart_type' = ""
    /\ st_bars' = <<>>
    /\ st_heatmap' = <<>>
    /\ st_chart' = <<>>
    /\ st_insights' = <<>>

\* The multiselect of line 50 is on the page once line 50 has run; changing
\* it reruns the script.
SelectCourses ==
    /\ pc \in {"done", "fatal"}
    /\ \E sel \in SubSeqs(courses) :
         /\ sel # selected_courses
         /\ ui_courses' = <<sel>>
    /\ last_run' = <<>>
    /\ Rerun
    /\ UNCHANGED <<csv, argsort_ties, ui_chart>>

\* The selectbox of line 97 is on the page once line 97 has run; changing it
\* reruns the script.
SelectChartType ==
    /\ pc \in {"done", "fatal"}
    /\ chart_type # ""
    /\ \E i \in 1..Len(ChartTypes) :
         /\ ChartTypes[i] # ui_chart
         /\ ui_chart' = ChartTypes[i]
    /\ last_run' = <<Page>>
    /\ Rerun
    /\ UNCHANGED <<csv, argsort_ties, ui_courses>>

Next ==
    \/ RunScript
    \/ SelectCourses
    \/ SelectChartType

Spec == Init /\ [][Next]_vars

\* How far the last run got.
Ran == pc \in {"done", "fatal"}
Cleaned == Ran
Filtered == Ran
Aggregated == Ran /\ error # "TypeError"
Visualized == Ran /\ error # "TypeError"

\* ------------------------------------------------------------ properties
\* Arithmetic used to state the properties: sums over a common denominator.
NonMissing(vals) == {i \in 1..Len(vals) : vals[i][2] # 0}

RECURSIVE DenProd(_)
\* The product of the denominators of the non-missing values.
DenProd(vals) ==
    IF vals = <<>> THEN 1
    ELSE (IF Head(vals)[2] = 0 THEN 1 ELSE Head(vals)[2]) * DenProd(Tail(vals))

RECURSIVE ScaledSum(_, _)
\* The sum of the non-missing values, times den (a multiple of each denominator).
ScaledSum(vals, den) ==
    IF vals = <<>> THEN 0
    ELSE (IF Head(vals)[2] = 0 THEN 0 ELSE Head(vals)[1] * (den \div Head(vals)[2]))
         + ScaledSum(Tail(vals), den)

\* m is the arithmetic mean of the non-missing values of vals.
IsMeanOf(m, vals) ==
    /\ NonMissing(vals) # {}
    /\ m[2] > 0
    /\ m[1] * Cardinality(NonMissing(vals)) * DenProd(vals)
         = m[2] * ScaledSum(vals, DenProd(vals))

\* Both are numbers and a > b.
Greater(a, b) == a[2] > 0 /\ b[2] > 0 /\ a[1] * b[2] > b[1] * a[2]
\* Both are numbers and a = b.
SameNumber(a, b) == a[2] > 0 /\ b[2] > 0 /\ a[1] * b[2] = b[1] * a[2]

\* The positions of the known numeric columns in the cleaned frame; the file
\* has the same columns at the same positions.
NumericPositions ==
    {j \in 1..Len(df.columns) : df.columns[j] \in Elems(all_numeric_cols)}
RawColumn(j) == [r \in 1..Len(csv.rows) |-> csv.rows[r][j]]

\* Cleaned row k is file row r with its missing numeric cells filled in.
CleanedFrom(k, r) ==
    \A j \in 1..Len(df.columns) :
        \/ df.rows[k][j] = csv.rows[r][j]
        \/ j \in NumericPositions /\ IsNaN(csv.rows[r][j])

\* Column j of the cleaned frame has no missing value, and each file row with
\* a missing value in column j is found in it with the column's mean there.
ImputedWithMean(j) ==
    /\ \A k \in 1..Len(df.rows) : ~IsNaN(df.rows[k][j])
    /\ \A r \in 1..Len(csv.rows) :
          IsNaN(csv.rows[r][j]) =>
             \E k \in 1..Len(df.rows) :
                 /\ CleanedFrom(k, r)
                 /\ IsMeanOf(df.rows[k][j], RawColumn(j))

\* C1 as stated: after the Cleaner, for EVERY numeric column present no value
\* is missing and every value that was missing is the mean of the column's
\* non-missing values, a column with no non-missing value included.
C1_ImputedEveryColumn ==
    Cleaned => \A j \in NumericPositions : ImputedWithMean(j)

\* C1 (amended): after the Cleaner, for every numeric column present that
\* has at least one non-missing value in the file, no value of the column is
\* missing and every value that was missing is the mean of the column's
\* non-missing values; a column with no non-missing value is left with every
\* value missing.
C1_ImputedWhereMeanExists ==
    Cleaned =>
       \A j \in NumericPositions :
           IF NonMissing(RawColumn(j)) # {}
           THEN ImputedWithMean(j)
           ELSE \A k \in 1..Len(df.rows) : IsNaN(df.rows[k][j])

\* A missing value was filled with a mean that is none of the file's values.
C1_Witness ==
    /\ Cleaned
    /\ \E j \in NumericPositions :
          /\ \E r \in 1..Len(csv.rows) : IsNaN(csv.rows[r][j])
          /\ \E k \in 1..Len(df.rows) : df.rows[k][j] = <<3, 2>>

IsLowerTrimmed(name) ==
    /\ \A i \in 1..Len(name) : name[i] \notin Elems(UpperCase)
    /\ name # <<>> => name[1] \notin Whitespace /\ name[Len(name)] \notin Whitespace

\* C9: after the Cleaner every column name is lowercase and trimmed, and no
\* two rows of the cleaned frame are equal in all columns, rows that became
\* equal through imputation included.
C9_NamesNormalizedRowsDistinct ==
    Cleaned =>
       /\ \A j \in 1..Len(df.columns) : IsLowerTrimmed(df.columns[j])
       /\ \A a, b \in 1..Len(df.rows) : a # b => df.rows[a] # df.rows[b]

\* A file with capitals and blanks in its header and pairwise distinct rows,
\* two of which became equal through imputation and were collapsed.
C9_Witness ==
    /\ Cleaned
    /\ \E j \in 1..Len(csv.columns) : ~IsLowerTrimmed(csv.columns[j])
    /\ \A a, b \in 1..Len(csv.rows) : a # b => csv.rows[a] # csv.rows[b]
    /\ Len(df.rows) < Len(csv.rows)

\* The k-th smallest element of a set of indices.
KthOf(I, k) == CHOOSE i \in I : Cardinality({j \in I : j <= i}) = k

\* out holds exactly the rows of in whose course is in S, in their order.
RowsOfCourses(out, in, S) ==
    LET I == {i \in 1..Len(in) : in[i][1] \in S}
    IN  /\ Len(out) = Cardinality(I)
        /\ \A k \in 1..Len(out) : out[k] = in[KthOf(I, k)]

\* C2: the Filter returns exactly the rows whose course is selected, in their
\* original order; with every course selected it returns the cleaned frame,
\* and with nothing selected it returns the cleaned frame too.
C2_FilterSelectsRows ==
    Filtered =>
       /\ filtered_df.columns = df.columns
       /\ selected_courses # <<>> =>
             RowsOfCourses(filtered_df.rows, df.rows, Elems(selected_courses))
       /\ Elems(selected_courses) = Elems(courses) => filtered_df = df
       /\ selected_courses = <<>> => filtered_df = df

\* A selection that keeps two rows and drops a row between them.
C2_Witness ==
    /\ pc = "done"
    /\ selected_courses = <<"A">>
    /\ Len(df.rows) = 3
    /\ df.rows[2][1] = "B"
    /\ Len(filtered_df.rows) = 2

\* Nothing selected: the whole cleaned frame, two courses, is returned.
C2_WitnessEmptySelection ==
    /\ pc = "done"
    /\ selected_courses = <<>>
    /\ Len(filtered_df.rows) >= 2

Metric(title) == IF title = "sessions" THEN sessionsperweek ELSE coursecompletion
CoursesIn(d) == Elems(Column(d, coursename)) \ {NA}
\* The values of a column in the rows of a course.
ValuesOf(d, col, c) ==
    LET rows == SelectSeq(d.rows, LAMBDA row : row[1] = c)
    IN  Tuple([k \in 1..Len(rows) |-> rows[k][ColPos(d, col)]])

\* series is the descending per-course mean of column col of d: one entry per
\* course, each the mean of the course's rows (missing when the course has no
\* value), no entry greater than an earlier one.
IsDescendingMeans(series, d, col) ==
    /\ {series[i][1] : i \in 1..Len(series)} = CoursesIn(d)
    /\ Len(series) = Cardinality(CoursesIn(d))
    /\ \A i \in 1..Len(series) :
          LET vals == ValuesOf(d, col, series[i][1])
          IN  IF NonMissing(vals) = {} THEN IsNaN(series[i][2])
              ELSE IsMeanOf(series[i][2], vals)
    /\ \A i, j \in 1..Len(series) : i < j => ~Greater(series[j][2], series[i][2])

\* C3: each bar-chart aggregate has exactly one entry per course of the
\* filtered frame, each entry is the arithmetic mean of the metric over the
\* course's rows, and the entries are in non-increasing order of mean.
C3_AggregateIsSortedMeans ==
    Aggregated =>
       /\ Len(st_bars) = Cardinality({sessionsperweek, coursecompletion}
                                     \cap Elems(numeric_cols))
       /\ \A b \in 1..Len(st_bars) :
             /\ Metric(st_bars[b][1]) \in Elems(numeric_cols)
             /\ IsDescendingMeans(st_bars[b][2], filtered_df, Metric(st_bars[b][1]))

\* Courses [A, A, B] with sessions [1, 2, 2] give [B: 2, A: 3/2].
C3_Witness ==
    /\ pc = "done"
    /\ Column(filtered_df, coursename) = <<"A", "A", "B">>
    /\ st_bars = << <<"sessions", << <<"B", <<2, 1>> >>, <<"A", <<3, 2>> >> >> >> >>

\* The first row of d with course c.
FirstSeen(d, c) ==
    CHOOSE i \in 1..Len(d.rows) :
        /\ d.rows[i][1] = c
        /\ \A j \in 1..Len(d.rows) : d.rows[j][1] = c => i <= j

\* C4 as stated: courses with equal means appear in the bar-chart aggregate
\* in the order in which they are first seen in the rows of the dataset.
C4_TiesInFirstSeenOrder ==
    Aggregated =>
       \A b \in 1..Len(st_bars) :
          \A i, j \in 1..Len(st_bars[b][2]) :
             i < j /\ SameNumber(st_bars[b][2][i][2], st_bars[b][2][j][2])
                => FirstSeen(filtered_df, st_bars[b][2][i][1])
                     < FirstSeen(filtered_df, st_bars[b][2][j][1])

\* C4 (amended): when the sort keeps equal keys in their input order, courses
\* with equal means appear in ascending order of course identifier (the order
\* of the group keys), whatever the order of the rows; numpy's quicksort does
\* not promise to keep that order.
C4_TiesInCourseOrderWhenKept ==
    Aggregated /\ argsort_ties = "keeps_ties" =>
       \A b \in 1..Len(st_bars) :
          \A i, j \in 1..Len(st_bars[b][2]) :
             i < j /\ SameNumber(st_bars[b][2][i][2], st_bars[b][2][j][2])
                => CourseRank(st_bars[b][2][i][1]) < CourseRank(st_bars[b][2][j][1])

\* Two courses with equal means, B first in the rows and A first in the chart.
C4_Witness ==
    /\ pc = "done"
    /\ argsort_ties = "keeps_ties"
    /\ \E b \in 1..Len(st_bars) :
          /\ Len(st_bars[b][2]) = 2
          /\ SameNumber(st_bars[b][2][1][2], st_bars[b][2][2][2])
          /\ st_bars[b][2][1][1] = "A"
          /\ FirstSeen(filtered_df, "B") < FirstSeen(filtered_df, "A")

\* The render call each chart kind stands for.
ChartOf(kind) ==
    CASE kind = "Scatter Plot" -> "scatter"
      [] kind = "Line Chart"   -> "line"
      [] kind = "Pie Chart"    -> "pie"

\* C5 as stated: in every run, with usersatisfaction and coursecompletion
\* both in the numeric column set exactly one chart is rendered and it is the
\* one of the selected kind; otherwise no chart is rendered and the notice is
\* shown.
C5_ChartRenderedEveryRun ==
    Ran =>
       IF usersatisfaction \in Elems(numeric_cols)
          /\ coursecompletion \in Elems(numeric_cols)
       THEN Len(st_chart) = 1 /\ st_chart[1][1] = ChartOf(ui_chart)
       ELSE st_chart = <<<<"info", <<>>>>>>

\* C5, for the runs that reach line 97 only: there the dispatch is as stated.
C5_ChartMatchesKind ==
    Visualized =>
       IF usersatisfaction \in Elems(numeric_cols)
          /\ coursecompletion \in Elems(numeric_cols)
       THEN Len(st_chart) = 1 /\ st_chart[1][1] = ChartOf(chart_type)
       ELSE st_chart = <<<<"info", <<>>>>>>

\* C6: when the filtered frame has no rows Step 8 emits the 'no data' notice
\* and nothing else; when it has a row the notice is not emitted.
C6_NoDataNoticeIffEmpty ==
    Ran =>
       IF Len(filtered_df.rows) = 0
       THEN st_insights = <<<<"warning", "no data">>>>
       ELSE \A e \in 1..Len(st_insights) : st_insights[e][1] # "warning"

\* A file with no rows: the notice alone.
C6_Witness ==
    /\ pc = "done"
    /\ Len(filtered_df.rows) = 0
    /\ Len(st_insights) = 1
    /\ st_insights[1][1] = "warning"

\* The mean of course a is at least the mean of course b, both having values.
MeanAtLeast(d, col, a, b) ==
    \E va \in {ValuesOf(d, col, a)}, vb \in {ValuesOf(d, col, b)} :
        /\ NonMissing(va) # {}
        /\ NonMissing(vb) # {}
        /\ ScaledSum(va, DenProd(va)) * DenProd(vb) * Cardinality(NonMissing(vb))
             >= ScaledSum(vb, DenProd(vb)) * DenProd(va) * Cardinality(NonMissing(va))

StatementOf(title) == IF title = "sessions" THEN "top sessions" ELSE "top completion"
\* The bar-chart titles of the metrics in the numeric column set.
Titles == {t \in {"sessions", "completion"} : Metric(t) \in Elems(numeric_cols)}
\* The courses named by the insight statements of a metric.
Named(title) ==
    {st_insights[e][2] : e \in {x \in 1..Len(st_insights) :
                                    st_insights[x][1] = StatementOf(title)}}
BarSeries(title) ==
    st_bars[CHOOSE b \in 1..Len(st_bars) : st_bars[b][1] = title][2]

\* C7 as stated: for a non-empty filtered frame and each metric present, the
\* course named has a mean at least that of every course, and it is the first
\* entry of the Aggregator's descending result.
C7_NamedIsFirstOfAggregate ==
    pc = "done" /\ Len(filtered_df.rows) > 0 =>
       \A t \in Titles :
          /\ Named(t) # {}
          /\ \A c \in Named(t) :
                /\ c \in CoursesIn(filtered_df)
                /\ \A o \in CoursesIn(filtered_df) :
                      MeanAtLeast(filtered_df, Metric(t), c, o)
                /\ c = BarSeries(t)[1][1]

\* The metric has a value in the filtered frame.
HasValue(d, col) == NonMissing(Column(d, col)) # {}

\* No other course of the filtered frame has a mean as great as that of c.
SoleMaximum(t, c) ==
    \A o \in CoursesIn(filtered_df) \ {c} :
       ~MeanAtLeast(filtered_df, Metric(t), o, c)

\* C7 (amended): for a non-empty filtered frame and each metric present, a
\* completed Step 8 names one course per metric.  When the metric has a
\* non-missing value the course named has a mean at least that of every
\* course and, among the courses with that mean, the least course identifier;
\* it is the first entry of the Aggregator's result when no other course has
\* that mean or the sort keeps equal keys in their input order.  When the
\* metric has no value at all the statement names the missing value.
C7_NamedIsLeastMaximalCourse ==
    \A t \in Titles :
       /\ pc = "done" /\ Len(filtered_df.rows) > 0 => Named(t) # {}
       /\ \A c \in Named(t) :
             IF HasValue(filtered_df, Metric(t))
             THEN /\ c \in CoursesIn(filtered_df)
                  /\ \A o \in CoursesIn(filtered_df) :
                        /\ MeanAtLeast(filtered_df, Metric(t), c, o)
                        /\ MeanAtLeast(filtered_df, Metric(t), o, c)
                              => CourseRank(c) <= CourseRank(o)
                  /\ (argsort_ties = "keeps_ties" \/ SoleMaximum(t, c))
                        => c = BarSeries(t)[1][1]
             ELSE c = NA

\* Two courses share the maximum, B comes first in the rows, A is named.
C7_Witness ==
    /\ pc = "done"
    /\ argsort_ties = "keeps_ties"
    /\ CoursesIn(filtered_df) = {"A", "B"}
    /\ FirstSeen(filtered_df, "B") < FirstSeen(filtered_df, "A")
    /\ \E t \in Titles :
          /\ MeanAtLeast(filtered_df, Metric(t), "A", "B")
          /\ MeanAtLeast(filtered_df, Metric(t), "B", "A")
          /\ Named(t) = {"A"}

\* C8 as stated, its safety part: no run enters a fatal-error state.
C8_NoFatalError == pc # "fatal"

\* C10: a run that differs from the previous one only in the chart kind puts
\* the same filtered frame, bar-chart aggregates, heatmap input and insight
\* output on the page.
C10_ChartKindDoesNotInterfere ==
    Ran /\ last_run # <<>> => last_run[1] = Page

\* A pie-chart run after a run of another kind, in which avg_completion was
\* reassigned to a series that is not the rendered aggregate.
C10_Witness ==
    /\ pc = "done"
    /\ last_run # <<>>
    /\ chart_type = "Pie Chart"
    /\ "completion" \in Titles
    /\ avg_completion # BarSeries("completion")

====
